---- MODULE Spec2Model ----
(***************************************************************************)
(* The stream adapter of rust-sfml: the four extern "C" callbacks of       *)
(* src/inputstream.rs (read, seek, tell, get_size) over a caller-supplied  *)
(* Read + Seek source, and the lifetime of the callback table that         *)
(* Music::from_stream (src/audio/music.rs) hands to the native engine.     *)
(*                                                                         *)
(* The source is modelled as an in-memory cursor (std::io::Cursor: a byte  *)
(* sequence and a u64 position) whose individual read and seek calls may   *)
(* in addition deliver short reads or raise errors, as any Read + Seek     *)
(* implementation may.  Machine integers keep a two's-complement width of  *)
(* WordBits bits (the program's c_longlong / u64 have 64).                 *)
(***************************************************************************)
EXTENDS Integers, Sequences, FiniteSets, TLC

\* ---------------------------------------------------------------- bounds
WordBits == 3
MaxLen == 2
MaxReq == 2

\* ------------------------------------------------------- machine integers
RECURSIVE Pow2(_)
Pow2(n) == IF n = 0 THEN 1 ELSE 2 * Pow2(n - 1)

Modulus == Pow2(WordBits)
MaxI == Pow2(WordBits - 1) - 1
MinI == 0 - Pow2(WordBits - 1)
MaxU == Modulus - 1

I64 == MinI..MaxI
U64 == 0..MaxU

\* `x as u64` of a c_longlong
AsU64(x) == x % Modulus
\* `n as i64` of a u64
AsI64(n) == IF n > MaxI THEN n - Modulus ELSE n

Sentinel == -1

Min(a, b) == IF a < b THEN a ELSE b

\* An indeterminate byte (read from beyond a buffer's initialised length):
\* it may equal what the destination held, 0, or differ from it.
JunkByte == {0, 255}

\* ------------------------------------------------------------- the source
\* One call of the source's Read::read or Seek::seek ends in one of these.
ReadOutcome == {"full", "one", "intr", "err"}
SeekOutcome == {"ok", "err"}

\* The sources: n bytes 1, 2, .., n, for every length whose successor fits i64.
Contents == {[i \in 1..n |-> i] : n \in 0..Min(MaxLen, MaxI - 1)}

\* What the successive calls of the source's read do during one read_to_end
\* (calls beyond the plan deliver all they can): short reads of one byte,
\* with at most one error, Interrupted or not, at any call.
Ones(k) == [i \in 1..k |-> "one"]
ReadPlans ==
    {<<>>} \cup {Ones(k) : k \in 1..MaxReq}
           \cup {Append(Ones(k), f) : k \in 0..MaxReq, f \in {"intr", "err"}}

\* Bytes left between position p and the end of the data (none past the end).
Remaining(content, p) == IF p >= Len(content) THEN 0 ELSE Len(content) - p

\* Seek::seek(SeekFrom::Start(n)): a cursor accepts every u64 offset.
SeekStart(content, p, n, o) ==
    IF o = "err" THEN [ok |-> FALSE, n |-> 0, pos |-> p]
    ELSE [ok |-> TRUE, n |-> n, pos |-> n]

\* Seek::seek(SeekFrom::Current(0))
SeekCurrent0(content, p, o) ==
    IF o = "err" THEN [ok |-> FALSE, n |-> 0, pos |-> p]
    ELSE [ok |-> TRUE, n |-> p, pos |-> p]

\* Seek::seek(SeekFrom::End(0))
SeekEnd0(content, p, o) ==
    IF o = "err" THEN [ok |-> FALSE, n |-> 0, pos |-> p]
    ELSE [ok |-> TRUE, n |-> Len(content), pos |-> Len(content)]

\* stream.take(limit).read_to_end(&mut buf): Take::read returns Ok(0) without
\* calling the source once the limit is used up; read_to_end calls read until
\* it returns Ok(0), goes on after ErrorKind::Interrupted, and stops at any
\* other error.  acc carries buf and the counters of the calls made so far.
RECURSIVE read_to_end_loop(_, _, _, _, _)
read_to_end_loop(content, p, limit, plan, acc) ==
    IF limit = 0
    THEN [ok |-> TRUE, buf |-> acc.buf, pos |-> p, calls |-> acc.calls, intr |-> acc.intr]
    ELSE LET o == IF plan = <<>> THEN "full" ELSE Head(plan)
             rest == IF plan = <<>> THEN <<>> ELSE Tail(plan)
             room == Min(Remaining(content, p), limit)
             n == IF o = "one" THEN Min(1, room) ELSE room
         IN IF o = "err"
            THEN [ok |-> FALSE, buf |-> acc.buf, pos |-> p,
                  calls |-> acc.calls + 1, intr |-> acc.intr]
            ELSE IF o = "intr"
            THEN read_to_end_loop(content, p, limit, rest,
                     [buf |-> acc.buf, calls |-> acc.calls + 1, intr |-> TRUE])
            ELSE IF n = 0
            THEN [ok |-> TRUE, buf |-> acc.buf, pos |-> p,
                  calls |-> acc.calls + 1, intr |-> acc.intr]
            ELSE read_to_end_loop(content, p + n, limit - n, rest,
                     [buf |-> acc.buf \o SubSeq(content, p + 1, p + n),
                      calls |-> acc.calls + 1, intr |-> acc.intr])

\* Mutant of read_to_end: one call of read instead of the loop to end-of-data.
read_once(content, p, limit, plan) ==
    LET o == IF plan = <<>> THEN "full" ELSE Head(plan)
        room == Min(Remaining(content, p), limit)
        n == IF o = "one" THEN Min(1, room) ELSE room
    IN IF o \in {"err", "intr"}
       THEN [ok |-> FALSE, buf |-> <<>>, pos |-> p, calls |-> 1, intr |-> o = "intr"]
       ELSE [ok |-> TRUE, buf |-> SubSeq(content, p + 1, p + n), pos |-> p + n,
             calls |-> 1, intr |-> FALSE]

read_to_end(content, p, limit, plan) ==
    read_to_end_loop(content, p, limit, plan, [buf |-> <<>>, calls |-> 0, intr |-> FALSE])

\* ptr::copy_nonoverlapping(buf.as_ptr(), data, count): count bytes go to the
\* destination; those read past buf's length are indeterminate (junk).
copy_nonoverlapping(buf, data, count, junk) ==
    [i \in 1..Len(data) |->
        IF i > count THEN data[i]
        ELSE IF i <= Len(buf) THEN buf[i]
        ELSE junk[i - Len(buf)]]

\* ---------------------------------------------------------- the callbacks
\* Each returns what the call leaves behind: how it ended ("returned", or
\* "panicked" for an unwrap() of an Err), the value returned, the source's
\* position, and what the call did: calls made to the source, whether an
\* error other than Interrupted / an Interrupted error was raised, bytes
\* obtained from the source, bytes written to the destination.
Result(ended, ret, p, calls, raised, intr, got, copied) ==
    [ended |-> ended, ret |-> ret, pos |-> p, calls |-> calls,
     raised |-> raised, intr |-> intr, got |-> got, copied |-> copied]

\* Mutant of read: the bytes obtained are copied before the status is looked at.
read_copy_then_check(content, p, data, size, plan, junk) ==
    IF size = 0
    THEN [res |-> Result("returned", 0, p, 0, FALSE, FALSE, 0, 0), dest |-> data]
    ELSE IF size > 0
    THEN LET status == read_to_end(content, p, AsU64(size), plan)
             n == Len(status.buf)
             copy == copy_nonoverlapping(status.buf, data, n, junk)
         IN [res |-> Result("returned", IF status.ok THEN AsI64(n) ELSE Sentinel,
                            status.pos, status.calls, ~status.ok, status.intr, n, n),
             dest |-> copy]
    ELSE [res |-> Result("returned", Sentinel, p, 0, FALSE, FALSE, 0, 0), dest |-> data]

\* Mutant of read: no branch for a size of 0, which ends as a failure.
read_zero_fails(content, p, data, size, plan, junk) ==
    IF size > 0
    THEN LET status == read_to_end(content, p, AsU64(size), plan)
         IN IF status.ok
            THEN [res |-> Result("returned", AsI64(Len(status.buf)), status.pos,
                                 status.calls, FALSE, status.intr, Len(status.buf), size),
                  dest |-> copy_nonoverlapping(status.buf, data, size, junk)]
            ELSE [res |-> Result("returned", Sentinel, status.pos,
                                 status.calls, TRUE, status.intr, Len(status.buf), 0),
                  dest |-> data]
    ELSE [res |-> Result("returned", Sentinel, p, 0, FALSE, FALSE, 0, 0), dest |-> data]

\* read: the result and the destination buffer it leaves.
read(content, p, data, size, plan, junk) ==
    IF size = 0
    THEN [res |-> Result("returned", 0, p, 0, FALSE, FALSE, 0, 0), dest |-> data]
    ELSE IF size > 0
    THEN LET status == read_to_end(content, p, AsU64(size), plan)
         IN IF status.ok
            THEN [res |-> Result("returned", AsI64(Len(status.buf)), status.pos,
                                 status.calls, FALSE, status.intr, Len(status.buf), size),
                  dest |-> copy_nonoverlapping(status.buf, data, size, junk)]
            ELSE [res |-> Result("returned", Sentinel, status.pos,
                                 status.calls, TRUE, status.intr, Len(status.buf), 0),
                  dest |-> data]
    ELSE [res |-> Result("returned", Sentinel, p, 0, FALSE, FALSE, 0, 0), dest |-> data]

\* Mutant of get_size: the position is not restored after the seek to the end.
get_size_no_restore(content, p, plan) ==
    LET s1 == SeekCurrent0(content, p, plan[1])
        s2 == SeekEnd0(content, s1.pos, plan[2])
    IN IF ~s1.ok THEN Result("panicked", 0, s1.pos, 1, TRUE, FALSE, 0, 0)
       ELSE IF ~s2.ok THEN Result("panicked", 0, s2.pos, 2, TRUE, FALSE, 0, 0)
       ELSE Result("returned", AsI64(s2.n), s2.pos, 2, FALSE, FALSE, 0, 0)

get_size(content, p, plan) ==
    LET s1 == SeekCurrent0(content, p, plan[1])
        s2 == SeekEnd0(content, s1.pos, plan[2])
        s3 == SeekStart(content, s2.pos, s1.n, plan[3])
    IN IF ~s1.ok THEN Result("panicked", 0, s1.pos, 1, TRUE, FALSE, 0, 0)
       ELSE IF ~s2.ok THEN Result("panicked", 0, s2.pos, 2, TRUE, FALSE, 0, 0)
       ELSE Result("returned", AsI64(s2.n), s3.pos, 3, ~s3.ok, FALSE, 0, 0)

\* Mutant of tell: seeks to SeekFrom::Start(0) instead of SeekFrom::Current(0).
tell_rewinds(content, p, o) ==
    LET s == SeekStart(content, p, 0, o)
    IN IF ~s.ok THEN Result("panicked", 0, s.pos, 1, TRUE, FALSE, 0, 0)
       ELSE Result("returned", AsI64(s.n), s.pos, 1, FALSE, FALSE, 0, 0)

tell(content, p, o) ==
    LET s == SeekCurrent0(content, p, o)
    IN IF ~s.ok THEN Result("panicked", 0, s.pos, 1, TRUE, FALSE, 0, 0)
       ELSE Result("returned", AsI64(s.n), s.pos, 1, FALSE, FALSE, 0, 0)

\* Mutant of seek: an offset beyond the end of the data is refused.
seek_refuses_past_end(content, p, position, o) ==
    LET s == SeekStart(content, p, AsU64(position), o)
    IN IF s.ok /\ AsU64(position) <= Len(content)
       THEN Result("returned", AsI64(s.n), s.pos, 1, FALSE, FALSE, 0, 0)
       ELSE Result("returned", Sentinel, p, 1, ~s.ok, FALSE, 0, 0)

seek(content, p, position, o) ==
    LET s == SeekStart(content, p, AsU64(position), o)
    IN IF s.ok THEN Result("returned", AsI64(s.n), s.pos, 1, FALSE, FALSE, 0, 0)
       ELSE Result("returned", Sentinel, s.pos, 1, TRUE, FALSE, 0, 0)

\* ------------------------------------------------------------------ state
VARIABLES
    content,   \* the source's bytes
    pos,       \* the source's position (u64)
    source,    \* the caller's source: "live" | "dropped"
    table,     \* the InputStream built by from_stream: "none" | "live" | "dead"
    music,     \* "none" | "constructing" | "alive" | "dropped"
    proc,      \* "running" | "aborted" | "unwound" | "crashed"
    last       \* the latest callback invocation

vars == <<content, pos, source, table, music, proc, last>>

\* last: the callback (op), its argument, the position it found (pos0), the
\* fields of its Result, and for read the destination buffer as it left it.
NoCall == [op |-> "none", arg |-> 0, pos0 |-> 0, ended |-> "returned", ret |-> 0,
           calls |-> 0, raised |-> FALSE, intr |-> FALSE, got |-> 0, copied |-> 0,
           data |-> <<>>]

\* The buffer the engine passes to read: at least the requested length, here
\* MaxReq bytes, zero-filled.
Buffer == [i \in 1..MaxReq |-> 0]

Init ==
    /\ content \in Contents
    /\ pos = 0
    /\ source = "live"
    /\ table = "none"
    /\ music = "none"
    /\ proc = "running"
    /\ last = NoCall

\* ----------------------------------------------------- Music's life cycle
\* from_stream up to the call of sfMusic_createFromStream: the table is a
\* local of from_stream and its userData points at the borrowed source.
FromStreamBegin ==
    /\ proc = "running" /\ music = "none" /\ source = "live"
    /\ table' = "live"
    /\ music' = "constructing"
    /\ UNCHANGED <<content, pos, source, proc, last>>

\* from_stream returns Some(Music) or None; its local input_stream ends here.
FromStreamReturn ==
    /\ proc = "running" /\ music = "constructing"
    /\ \E null \in BOOLEAN :
         IF null THEN music' = "none" /\ table' = "none"
         ELSE music' = "alive" /\ table' = "dead"
    /\ UNCHANGED <<content, pos, source, proc, last>>

\* Music carries no borrow of the source: the caller may drop the source
\* once from_stream has returned.
DropSource ==
    /\ proc = "running" /\ source = "live" /\ music # "constructing"
    /\ source' = "dropped"
    /\ UNCHANGED <<content, pos, table, music, proc, last>>

\* Drop for Music: sfMusic_destroy
DropMusic ==
    /\ proc = "running" /\ music = "alive"
    /\ music' = "dropped"
    /\ UNCHANGED <<content, pos, source, table, proc, last>>

\* ------------------------------------------------- callbacks by the engine
\* The engine calls back while it constructs the music and while it lives.
EngineHolds == proc = "running" /\ music \in {"constructing", "alive"}
Dangling == table # "live" \/ source # "live"

\* A panic leaves an extern "C" function by unwinding into the engine's
\* frames or by aborting the process, as the build decides.
Record(op, arg, r, data) ==
    /\ last' = [op |-> op, arg |-> arg, pos0 |-> pos, ended |-> r.ended, ret |-> r.ret,
                calls |-> r.calls, raised |-> r.raised, intr |-> r.intr,
                got |-> r.got, copied |-> r.copied, data |-> data]
    /\ pos' = r.pos
    /\ proc' \in IF r.ended = "panicked" THEN {"aborted", "unwound"} ELSE {"running"}
    /\ UNCHANGED <<content, source, table, music>>

\* Bytes the copy of read takes from beyond buf's length.
JunkLen(size, plan) ==
    IF size <= 0 THEN 0
    ELSE LET status == read_to_end(content, pos, AsU64(size), plan)
         IN IF status.ok THEN size - Len(status.buf) ELSE 0

ReadCb ==
    /\ EngineHolds
    /\ \E size \in MinI..MaxReq :
         \E plan \in IF size >= 0 THEN ReadPlans ELSE {<<>>} :
           \E junk \in [1..JunkLen(size, plan) -> JunkByte] :
             LET r == read(content, pos, Buffer, size, plan, junk)
             IN Record("read", size, r.res, r.dest)

GetSizeCb ==
    /\ EngineHolds
    /\ \E plan \in [1..3 -> SeekOutcome] :
         Record("get_size", 0, get_size(content, pos, plan), <<>>)

TellCb ==
    /\ EngineHolds
    /\ \E o \in SeekOutcome : Record("tell", 0, tell(content, pos, o), <<>>)

SeekCb ==
    /\ EngineHolds
    /\ \E position \in I64, o \in SeekOutcome :
         Record("seek", position, seek(content, pos, position, o), <<>>)

\* A callback through a dead table or into a dropped source is a use after
\* free: besides running as above on the stale memory, it may crash.
DanglingCb ==
    /\ EngineHolds /\ Dangling
    /\ proc' = "crashed"
    /\ UNCHANGED <<content, pos, source, table, music, last>>

Next ==
    \/ FromStreamBegin
    \/ FromStreamReturn
    \/ DropSource
    \/ DropMusic
    \/ ReadCb
    \/ GetSizeCb
    \/ TellCb
    \/ SeekCb
    \/ DanglingCb

Spec == Init /\ [][Next]_vars

\* ----------------------------------------------------------------- claims
IsRead == last.op = "read"
AtSource(i) == content[last.pos0 + i]

\* C1: while the Music exists (after from_stream has returned, before it is
\* dropped) the callback table handed to the native constructor is alive
\* and its context pointer designates a live source.
C1_TableOutlivesMusic ==
    music = "alive" => (table = "live" /\ source = "live")

\* C2: a successful read of size L > 0 that obtains k bytes copies exactly k
\* bytes: destination bytes [0, k) are source bytes [P, P+k), bytes from k on
\* are untouched, and nothing beyond the k bytes obtained is copied.
C2_CopiesExactlyBytesRead ==
    (IsRead /\ last.arg > 0 /\ last.ret >= 0) =>
        /\ last.copied = last.got
        /\ \A i \in 1..last.got : last.data[i] = AtSource(i)
        /\ \A i \in (last.got + 1)..MaxReq : last.data[i] = Buffer[i]

\* C3: no callback panics: an error of the source's seek or read never makes
\* a callback leave otherwise than by returning.
C3_NoCallbackPanics ==
    last.ended # "panicked" /\ proc \notin {"aborted", "unwound"}

C5_SeekPastEndFails ==
    (last.op = "seek" /\ last.arg = Len(content) + 1 /\ ~last.raised) =>
        last.ret = Sentinel

\* C5 amended: seek to size + 1 on an in-memory source succeeds: it returns
\* size + 1 and leaves the source positioned there, past its end; -1 is
\* returned only when the source's seek raises an error.
C5_SeekPastEndSucceeds ==
    (last.op = "seek" /\ last.arg = Len(content) + 1) =>
        IF last.raised THEN last.ret = Sentinel /\ pos = last.pos0
        ELSE last.ret = Len(content) + 1 /\ pos = Len(content) + 1

C5_Witness ==
    /\ last.op = "seek" /\ last.arg = Len(content) + 1 /\ ~last.raised
    /\ Len(content) > 0 /\ pos > Len(content)

\* C6: get_size whose seeks succeed returns the source's length and leaves
\* the position P it found; a tell right after it returns P (P within the
\* range of i64); the source's bytes stay as they were.
C6_GetSizeKeepsPosition ==
    [][ /\ (last'.op = "get_size" /\ ~last'.raised) =>
              (last'.ret = Len(content) /\ pos' = last'.pos0 /\ content' = content)
        /\ (/\ last.op = "get_size" /\ ~last.raised /\ last.pos0 <= MaxI
            /\ last'.op = "tell" /\ ~last'.raised) =>
              last'.ret = last.pos0 ]_vars

C6_Witness ==
    /\ last.op = "get_size" /\ ~last.raised /\ last.calls = 3
    /\ last.pos0 > 0 /\ last.pos0 < Len(content)
    /\ pos = last.pos0 /\ last.ret = Len(content)

\* C7: a read of size L > 0 that meets no error, with N bytes left from the
\* position P, returns min(L, N) and leaves the position at P plus that.
C7_ReadRespectsAvailable ==
    (IsRead /\ last.arg > 0 /\ ~last.raised) =>
        LET N == Remaining(content, last.pos0)
        IN /\ last.ret = (IF last.arg > N THEN N ELSE last.arg)
           /\ pos = last.pos0 + last.ret

C7_Witness ==
    /\ IsRead /\ ~last.raised /\ last.pos0 > 0
    /\ Remaining(content, last.pos0) > 0
    /\ last.arg > Remaining(content, last.pos0)
    /\ last.ret = Remaining(content, last.pos0)

\* C8: a seek to an offset O in [0, size] that meets no error returns O and a
\* tell right after it returns O; tell changes neither the position nor the
\* source's bytes.
C8_SeekTellRoundTrip ==
    [][ /\ (/\ last'.op = "seek" /\ ~last'.raised
            /\ last'.arg >= 0 /\ last'.arg <= Len(content)) =>
              (last'.ret = last'.arg /\ pos' = last'.arg)
        /\ (/\ last.op = "seek" /\ ~last.raised
            /\ last.arg >= 0 /\ last.arg <= Len(content)
            /\ last'.op = "tell" /\ ~last'.raised) =>
              last'.ret = last.arg
        /\ last'.op = "tell" =>
              (pos' = last'.pos0 /\ content' = content) ]_vars

C8_Witness ==
    /\ last.op = "seek" /\ ~last.raised /\ last.arg > 0 /\ last.arg <= Len(content)
    /\ last.pos0 # last.arg /\ last.ret = last.arg /\ pos = last.arg

\* C9: a read of size 0 returns 0, copies nothing, makes no call to the
\* source and leaves its position, whatever the source's next call would do.
C9_ZeroLengthRead ==
    (IsRead /\ last.arg = 0) =>
        /\ last.ended = "returned" /\ last.ret = 0
        /\ last.copied = 0 /\ last.data = Buffer
        /\ last.calls = 0 /\ pos = last.pos0

C9_Witness ==
    IsRead /\ last.arg = 0 /\ last.ret = 0 /\ pos > 0 /\ pos < Len(content)

\* C10: whatever the argument, a callback that returns returns a value that
\* is >= 0 or exactly -1.
C10_NonNegativeOrSentinel ==
    last.ended = "returned" => (last.ret >= 0 \/ last.ret = Sentinel)

====
